---- MODULE Spec2Model ----
(***************************************************************************)
(* Model of kaiten_migration.py: the property mapper                       *)
(* prepare_properties_for_migration, the orchestrator migrate_cards and    *)
(* the sub-resource migrators of KaitenMigration (tags, comments, files,   *)
(* checklists).  The program is single-threaded; pc is its position.       *)
(* Every HTTP request is one step whose outcome (an exception, or a parsed *)
(* body) is chosen by the environment.                                     *)
(***************************************************************************)
EXTENDS Integers, Sequences, FiniteSets, TLC

\* ------------------------------------------------------------------ bounds
MaxCards == 2     \* cards in one selection
MaxItems == 2     \* entries of one source listing (tags, comments, files, checklists, items)
MaxLen   == 2     \* elements of one list-valued property
MaxProps == 2     \* entries of one property map
MaxSource == 6    \* cards in the selected column of the source board
MaxLimit == 3     \* cards the source returns for one request without a limit

\* ------------------------------------------------------------- Python data
None == [kind |-> "None"]

Ids == {1, 2}

\* The elements a list-valued property can hold: a dict with an 'id' key, a
\* dict without one, a number.  Str is a string value.
Ref(n) == [kind |-> "ref", n |-> n]
Dict   == [kind |-> "dict", n |-> 0]
Num(n) == [kind |-> "num", n |-> n]
Str    == [kind |-> "str", n |-> 0]
Elements == {Ref(n) : n \in Ids} \cup {Dict} \cup {Num(1)}

SeqsUpTo(S, n) == UNION {[1..m -> S] : m \in 0..n}

List(s) == [kind |-> "list", elems |-> s]
Scalar(e) == [kind |-> "scalar", elems |-> <<e>>]
Values == {List(s) : s \in SeqsUpTo(Elements, MaxLen)}
          \cup {Scalar(Num(1)), Scalar(Str), Scalar(Dict)}

\* The custom fields of the two boards.  Source field 5 and target field 12
\* are both named "Owner"; source field 6 ("Legacy") has no field of its name
\* on the target board; key id_7 belongs to no field of the source board.
SourceFieldName == ("id_5" :> "Owner" @@ "id_6" :> "Legacy")
TargetFieldKey  == ("Owner" :> "id_12")
FieldKeys == {"id_5", "id_6", "id_7"}

PyDict(f) == [kind |-> "dict", map |-> f]
PropertyMaps ==
    {PyDict(f) : f \in UNION {[D -> Values] :
                                D \in {E \in SUBSET FieldKeys : Cardinality(E) <= MaxProps}}}

\* ------------------------------------------- prepare_properties_for_migration
\* `'id' in item` (line 228, line 230): a key test on a dict, TypeError on a
\* number.
IdTestRaises(e) == e.kind = "num"
HasId(e) == e.kind = "ref"

\* line 228: isinstance(value, list) and value and isinstance(value[0], dict)
\* and 'id' in value[0]
IsRefList(v) ==
    /\ v.kind = "list"
    /\ v.elems # <<>>
    /\ v.elems[1].kind \in {"ref", "dict"}
    /\ HasId(v.elems[1])

\* line 230: [item['id'] for item in value if 'id' in item]
ExtractIds(s) ==
    LET kept == SelectSeq(s, HasId)
    IN  [j \in 1..Len(kept) |-> Num(kept[j].n)]

ExtractRaises(s) == \E j \in 1..Len(s) : IdTestRaises(s[j])

\* lines 228-233
PrepareValue(v) == IF IsRefList(v) THEN List(ExtractIds(v.elems)) ELSE v

TypeError == [kind |-> "TypeError"]

\* lines 216-235; the result is None, a dict, or TypeError when line 230 raises.
\* The mapper with `is None` in the place of `not` in its first test: the
\* empty map goes through the loop.
prepare_properties_keeps_empty(source_properties) ==
    IF source_properties = None
    THEN None
    ELSE IF \E k \in DOMAIN source_properties.map :
                /\ IsRefList(source_properties.map[k])
                /\ ExtractRaises(source_properties.map[k].elems)
         THEN TypeError
         ELSE PyDict([k \in DOMAIN source_properties.map |->
                         PrepareValue(source_properties.map[k])])

prepare_properties_for_migration(source_properties) ==
    IF source_properties = None \/ DOMAIN source_properties.map = {}
    THEN None
    ELSE IF \E k \in DOMAIN source_properties.map :
                /\ IsRefList(source_properties.map[k])
                /\ ExtractRaises(source_properties.map[k].elems)
         THEN TypeError
         ELSE PyDict([k \in DOMAIN source_properties.map |->
                         PrepareValue(source_properties.map[k])])


\* ------------------------------------------------------------ source data
Absent == [kind |-> "absent"]          \* the key is not in the JSON object
Val(x) == [kind |-> "val", v |-> x]

\* The property maps the cards of a run carry: none, the reference-valued
\* field of the board's "Owner", and a list mixing a reference and a number.
RunProps ==
    { None,
      PyDict("id_5" :> List(<<Ref(1)>>)),
      PyDict("id_5" :> List(<<Ref(1), Num(1)>>)) }

\* The scalar fields of the cards of a run: some set, some null, some missing.
RunScalars ==
    { [description |-> Val("text"), type_id |-> None, size_text |-> Absent,
       due_date |-> Val("date"), asap |-> Absent, expires_later |-> None] }

\* A card of st.session_state.cards_cache (lines 438-446): `tags` is whether
\* the snapshot carries a non-empty tag list.
Card(id, tags, props, sc) ==
    [id |-> id, title |-> Val("title"), tags |-> tags, properties |-> props,
     description |-> sc.description, type_id |-> sc.type_id, size_text |-> sc.size_text,
     due_date |-> sc.due_date, asap |-> sc.asap, expires_later |-> sc.expires_later]

\* What the source instance answers: the first n of a card's tags, comments,
\* files and checklists (each checklist with its first m items).
Tag(m)     == [name |-> m, color |-> m]
Comment(m) == [text |-> m, created |-> ToString(100 + m),
               author |-> IF m % 2 = 1 THEN Val("Alice") ELSE Absent]
File(m)    == [url |-> m, name |-> m]
Item(m)    == [text |-> m, checked |-> IF m % 2 = 1 THEN Val("true") ELSE Absent]
Checklist(k, m) == [name |-> k, items |-> [j \in 1..m |-> Item(j)]]

TagLists       == {[j \in 1..n |-> Tag(j)] : n \in 0..MaxItems}
CommentLists   == {[j \in 1..n |-> Comment(j)] : n \in 0..MaxItems}
FileLists      == {[j \in 1..n |-> File(j)] : n \in 0..MaxItems}
ChecklistLists ==
    {[k \in 1..n |-> Checklist(k, m)] : n \in 0..MaxItems, m \in 0..MaxItems}

\* ------------------------------------------------------------------ state
VARIABLES
    pc,               \* position in migrate_cards / the migrators
    total_cards,      \* line 243
    i,                \* the loop index of line 246
    card,             \* the loop variable of line 246
    success_count,    \* line 244
    new_card_data,    \* lines 256-271
    new_card,         \* line 275: the parsed response of POST cards
    progress,         \* the values given to progress_bar.progress, in order
    result,           \* the returned pair
    temp_dir,         \* names of the files in self.temp_dir
    cat,              \* the category the listing below belongs to
    listing,          \* source_tags / source_comments / files / checklists
    pos,              \* entries of the listing the loop is done with
    new_checklist,    \* line 169
    item_pos,         \* items of the current checklist the loop is done with
    sent,             \* the item requests issued on the listing, in order
    made,             \* the checklist creation requests issued for the card
    req,              \* the last request issued
    posts,            \* POST cards requests issued for the current card
    outcomes,         \* per card so far: "none" (no POST cards), "failed", "ok"
    sub,              \* a sub-resource request was issued for the current card
    phases,           \* the category lines log_container.write got for the card
    errors,           \* the categories log_container.error got a line for
    source_properties, \* the argument of prepare_properties_for_migration
    prepared_props,    \* its result
    source,            \* the source instance: cards in the column, default page size
    cards_cache,       \* st.session_state.cards_cache (line 446), the card ids
    cards_to_migrate   \* line 511, the card ids

vars == <<pc, total_cards, i, card, success_count, new_card_data, new_card, progress,
          result, temp_dir, cat, listing, pos, new_checklist, item_pos, sent, made, req,
          posts, outcomes, sub, phases, errors, source_properties, prepared_props,
          source, cards_cache, cards_to_migrate>>

mapper == <<source_properties, prepared_props>>
loader == <<source, cards_cache, cards_to_migrate>>
run    == <<total_cards, success_count, progress, result>>
sofar  == <<i, card, new_card_data, new_card, posts, outcomes>>
locals == <<cat, listing, pos, new_checklist, item_pos, sent, made>>

EmptyBody == [kind |-> "empty"]        \* a response body of {} or null
Body(id)  == [kind |-> "body", id |-> id]
Truthy(x) == x \notin {None, EmptyBody}

Request(dst, method, path, body) ==
    [dst |-> dst, method |-> method, path |-> path, body |-> body]


\* --------------------------------------------------------- migrate_cards
\* card.get(key) and card.get(key, default)
Get(c, k)      == IF c[k] = Absent THEN None ELSE c[k]
GetOr(c, k, d) == IF c[k] = Absent THEN d ELSE c[k]

\* The payload without line 271: the None values are sent too.
NewCardDataUnfiltered(c, prepared) ==
    [title         |-> c.title,
     description   |-> Get(c, "description"),
     board_id      |-> Val("target_board_id"),
     column_id     |-> Val("target_column_id"),
     lane_id       |-> Val("target_lane_id"),
     type_id       |-> Get(c, "type_id"),
     size_text     |-> Get(c, "size_text"),
     due_date      |-> Get(c, "due_date"),
     asap          |-> GetOr(c, "asap", Val("false")),
     properties    |-> prepared,
     expires_later |-> GetOr(c, "expires_later", Val("false"))]

\* lines 256-271: the payload, with the None values removed
NewCardData(c, prepared) ==
    LET full == [title         |-> c.title,
                 description   |-> Get(c, "description"),
                 board_id      |-> Val("target_board_id"),
                 column_id     |-> Val("target_column_id"),
                 lane_id       |-> Val("target_lane_id"),
                 type_id       |-> Get(c, "type_id"),
                 size_text     |-> Get(c, "size_text"),
                 due_date      |-> Get(c, "due_date"),
                 asap          |-> GetOr(c, "asap", Val("false")),
                 properties    |-> prepared,
                 expires_later |-> GetOr(c, "expires_later", Val("false"))]
    IN  [k \in {key \in DOMAIN full : full[key] # None} |-> full[k]]

\* The progress computed from the cards left instead of the cards done.
ProgressValueRemaining == <<total_cards - i, total_cards>>

\* line 329: the value given to progress_bar.progress, as <<numerator, denominator>>
ProgressValue == <<i + 1, total_cards>>

\* The card counted only when none of its sub-resources failed.
NextSuccessCountIfClean ==
    IF errors = {} THEN success_count + 1 ELSE success_count

\* line 328
NextSuccessCount == success_count + 1

\* The id the target gives the card it creates.
TargetCardId == 10 + i

\* The locals of one iteration before its first request.  (Python keeps the
\* previous iteration's bindings; none is read before it is assigned again.)
FreshCard ==
    /\ new_card' = None
    /\ cat' = "none" /\ listing' = <<>> /\ pos' = 0
    /\ new_checklist' = None /\ item_pos' = 0 /\ sent' = <<>> /\ made' = <<>>
    /\ req' = None /\ posts' = 0 /\ sub' = FALSE
    /\ phases' = <<>> /\ errors' = {}

\* lines 332-333: the card's except handler; the loop goes on with the next card.
CardFailed ==
    /\ errors' = errors \cup {"card"}
    /\ i' = i + 1
    /\ pc' = "loop"

\* lines 246-271, the mapper returns: the payload of the next card is built.
NextCard ==
    /\ pc = "loop" /\ i < total_cards
    /\ \E tags \in BOOLEAN, props \in RunProps, sc \in RunScalars :
          LET c == Card(i + 1, tags, props, sc)
              prepared == prepare_properties_for_migration(c.properties)
          IN  /\ prepared # TypeError
              /\ card' = c
              /\ new_card_data' = NewCardData(c, prepared)
    /\ FreshCard
    /\ pc' = "create"
    /\ UNCHANGED <<i, temp_dir, outcomes>> /\ UNCHANGED run /\ UNCHANGED mapper /\ UNCHANGED loader

\* lines 246-253 and 332-333: the mapper raises, nothing is sent for the card.
NextCardRaises ==
    /\ pc = "loop" /\ i < total_cards
    /\ \E tags \in BOOLEAN, props \in RunProps, sc \in RunScalars :
          LET c == Card(i + 1, tags, props, sc)
          IN  /\ prepare_properties_for_migration(c.properties) = TypeError
              /\ card' = c
    /\ new_card_data' = None
    /\ new_card' = None
    /\ cat' = "none" /\ listing' = <<>> /\ pos' = 0
    /\ new_checklist' = None /\ item_pos' = 0 /\ sent' = <<>> /\ made' = <<>>
    /\ req' = None /\ posts' = 0 /\ sub' = FALSE
    /\ phases' = <<>> /\ errors' = {"card"}
    /\ outcomes' = Append(outcomes, "none")
    /\ i' = i + 1
    /\ pc' = "loop"
    /\ UNCHANGED temp_dir /\ UNCHANGED run /\ UNCHANGED mapper /\ UNCHANGED loader

\* lines 275-279, POST cards raises (lines 332-333 follow)
CreateCardFails ==
    /\ pc = "create"
    /\ req' = Request("target", "POST", <<"cards">>, new_card_data)
    /\ posts' = posts + 1
    /\ outcomes' = Append(outcomes, "failed")
    /\ CardFailed
    /\ UNCHANGED <<card, new_card_data, new_card, temp_dir, sub, phases>>
    /\ UNCHANGED run /\ UNCHANGED locals /\ UNCHANGED mapper /\ UNCHANGED loader

\* lines 275-279, POST cards returns the parsed body
CreateCardOk ==
    /\ pc = "create"
    /\ req' = Request("target", "POST", <<"cards">>, new_card_data)
    /\ posts' = posts + 1
    /\ \E body \in {Body(TargetCardId), EmptyBody} : new_card' = body
    /\ outcomes' = Append(outcomes, "ok")
    /\ pc' = "tags"
    /\ UNCHANGED <<i, card, new_card_data, temp_dir, sub, phases, errors>>
    /\ UNCHANGED run /\ UNCHANGED locals /\ UNCHANGED mapper /\ UNCHANGED loader

\* What a step of the sub-resource migration leaves alone.
SubFrame == UNCHANGED sofar /\ UNCHANGED run /\ UNCHANGED mapper /\ UNCHANGED loader

\* ------------------------------------------------------------------ tags
\* line 282: the condition is false
TagsSkipped ==
    /\ pc = "tags"
    /\ ~(Truthy(new_card) /\ card.tags)
    /\ pc' = "comments"
    /\ UNCHANGED <<temp_dir, req, sub, phases, errors>>
    /\ UNCHANGED locals /\ SubFrame

\* lines 282-287 and 298-299: GET cards/{id}/tags raises
TagsListFails ==
    /\ pc = "tags"
    /\ Truthy(new_card) /\ card.tags
    /\ phases' = Append(phases, "tags")
    /\ req' = Request("source", "GET", <<"cards", card.id, "tags">>, None)
    /\ sub' = TRUE
    /\ cat' = "tags" /\ listing' = <<>> /\ pos' = 0 /\ sent' = <<>>
    /\ errors' = errors \cup {"tags"}
    /\ pc' = "comments"
    /\ UNCHANGED <<temp_dir, new_checklist, item_pos, made>> /\ SubFrame

\* The tag listing requested for every created card, whatever its snapshot
\* carries (`if new_card:` at line 282).
TagsListOkWhenCreated ==
    /\ pc = "tags"
    /\ Truthy(new_card)
    /\ phases' = Append(phases, "tags")
    /\ req' = Request("source", "GET", <<"cards", card.id, "tags">>, None)
    /\ sub' = TRUE
    /\ \E source_tags \in TagLists :
          /\ listing' = source_tags
          /\ pc' = IF source_tags = <<>> THEN "comments" ELSE "tag_item"
    /\ cat' = "tags" /\ pos' = 0 /\ sent' = <<>>
    /\ UNCHANGED <<temp_dir, new_checklist, item_pos, made, errors>> /\ SubFrame

\* lines 282-289: GET cards/{id}/tags returns the tags
TagsListOk ==
    /\ pc = "tags"
    /\ Truthy(new_card) /\ card.tags
    /\ phases' = Append(phases, "tags")
    /\ req' = Request("source", "GET", <<"cards", card.id, "tags">>, None)
    /\ sub' = TRUE
    /\ \E source_tags \in TagLists :
          /\ listing' = source_tags
          /\ pc' = IF source_tags = <<>> THEN "comments" ELSE "tag_item"
    /\ cat' = "tags" /\ pos' = 0 /\ sent' = <<>>
    /\ UNCHANGED <<temp_dir, new_checklist, item_pos, made, errors>> /\ SubFrame

\* The tag created through make_source_request instead of
\* make_target_request.
TagRequestToSource ==
    Request("source", "POST", <<"cards", new_card.id, "tags">>,
            [name |-> listing[pos + 1].name, color |-> listing[pos + 1].color])

\* lines 290-297: the request that creates the tag listing[pos + 1]
TagRequest ==
    Request("target", "POST", <<"cards", new_card.id, "tags">>,
            [name |-> listing[pos + 1].name, color |-> listing[pos + 1].color])

\* lines 290-299: POST cards/{id}/tags raises; the handler is outside the loop
TagCreateFails ==
    /\ pc = "tag_item"
    /\ req' = TagRequest
    /\ sent' = Append(sent, TagRequest.body)
    /\ errors' = errors \cup {"tags"}
    /\ pc' = "comments"
    /\ UNCHANGED <<temp_dir, cat, listing, pos, new_checklist, item_pos, made, sub, phases>>
    /\ SubFrame

\* lines 289-297: POST cards/{id}/tags returns
TagCreateOk ==
    /\ pc = "tag_item"
    /\ req' = TagRequest
    /\ sent' = Append(sent, TagRequest.body)
    /\ pos' = pos + 1
    /\ pc' = IF pos + 1 = Len(listing) THEN "comments" ELSE "tag_item"
    /\ UNCHANGED <<temp_dir, cat, listing, new_checklist, item_pos, made, sub, phases, errors>>
    /\ SubFrame

\* -------------------------------------------------------------- comments
\* The comments block without its own handler: the exception reaches the
\* card's handler of lines 332-333.
CommentsListFailsUncaught ==
    /\ pc = "comments"
    /\ phases' = Append(phases, "comments")
    /\ req' = Request("source", "GET", <<"cards", card.id, "comments">>, None)
    /\ sub' = TRUE
    /\ cat' = "comments" /\ listing' = <<>> /\ pos' = 0 /\ sent' = <<>>
    /\ CardFailed
    /\ UNCHANGED <<temp_dir, new_checklist, item_pos, made>>
    /\ UNCHANGED <<card, new_card_data, new_card, posts, outcomes>>
    /\ UNCHANGED run /\ UNCHANGED mapper /\ UNCHANGED loader

\* lines 302-304 and 311-312: GET cards/{id}/comments raises
CommentsListFails ==
    /\ pc = "comments"
    /\ phases' = Append(phases, "comments")
    /\ req' = Request("source", "GET", <<"cards", card.id, "comments">>, None)
    /\ sub' = TRUE
    /\ cat' = "comments" /\ listing' = <<>> /\ pos' = 0 /\ sent' = <<>>
    /\ errors' = errors \cup {"comments"}
    /\ pc' = "files"
    /\ UNCHANGED <<temp_dir, new_checklist, item_pos, made>> /\ SubFrame

\* lines 302-305: GET cards/{id}/comments returns the comments
CommentsListOk ==
    /\ pc = "comments"
    /\ phases' = Append(phases, "comments")
    /\ req' = Request("source", "GET", <<"cards", card.id, "comments">>, None)
    /\ sub' = TRUE
    /\ \E source_comments \in CommentLists :
          /\ listing' = source_comments
          /\ pc' = IF source_comments = <<>> THEN "files" ELSE "comment_item"
    /\ cat' = "comments" /\ pos' = 0 /\ sent' = <<>>
    /\ UNCHANGED <<temp_dir, new_checklist, item_pos, made, errors>> /\ SubFrame

\* line 306: the text of the comment created for a source comment, as the
\* parts of the f-string (the Cyrillic literal is transliterated)
CommentText(comment) ==
    <<"**", "Kommentarij ot ",
      IF comment.author = Absent THEN "Unknown" ELSE comment.author.v,
      "**", "\n", comment.text>>

\* lines 191-200 and 306-310
CommentRequest ==
    Request("target", "POST", <<"cards", new_card.id, "comments">>,
            [text |-> CommentText(listing[pos + 1]), text_format_type_id |-> 1])

\* lines 306-312: new_card['id'] raises on a body without an id
CommentCreateRaises ==
    /\ pc = "comment_item"
    /\ ~Truthy(new_card)
    /\ errors' = errors \cup {"comments"}
    /\ pc' = "files"
    /\ UNCHANGED <<temp_dir, req, sub, phases>> /\ UNCHANGED locals /\ SubFrame

\* lines 306-312: POST cards/{id}/comments raises; the handler is outside the loop
CommentCreateFails ==
    /\ pc = "comment_item"
    /\ Truthy(new_card)
    /\ req' = CommentRequest
    /\ sent' = Append(sent, CommentRequest.body)
    /\ errors' = errors \cup {"comments"}
    /\ pc' = "files"
    /\ UNCHANGED <<temp_dir, cat, listing, pos, new_checklist, item_pos, made, sub, phases>>
    /\ SubFrame

\* lines 305-310: POST cards/{id}/comments returns
CommentCreateOk ==
    /\ pc = "comment_item"
    /\ Truthy(new_card)
    /\ req' = CommentRequest
    /\ sent' = Append(sent, CommentRequest.body)
    /\ pos' = pos + 1
    /\ pc' = IF pos + 1 = Len(listing) THEN "files" ELSE "comment_item"
    /\ UNCHANGED <<temp_dir, cat, listing, new_checklist, item_pos, made, sub, phases, errors>>
    /\ SubFrame


\* ----------------------------------------------------------------- files
\* lines 315-319: new_card['id'] raises on a body without an id
FilesRaises ==
    /\ pc = "files"
    /\ ~Truthy(new_card)
    /\ phases' = Append(phases, "files")
    /\ cat' = "files" /\ listing' = <<>> /\ pos' = 0 /\ sent' = <<>>
    /\ errors' = errors \cup {"files"}
    /\ pc' = "checklists"
    /\ UNCHANGED <<temp_dir, new_checklist, item_pos, made, req, sub>> /\ SubFrame

\* lines 139-141 and 157-158: GET cards/{id}/files raises
FilesListFails ==
    /\ pc = "files"
    /\ Truthy(new_card)
    /\ phases' = Append(phases, "files")
    /\ req' = Request("source", "GET", <<"cards", card.id, "files">>, None)
    /\ sub' = TRUE
    /\ cat' = "files" /\ listing' = <<>> /\ pos' = 0 /\ sent' = <<>>
    /\ errors' = errors \cup {"files"}
    /\ pc' = "checklists"
    /\ UNCHANGED <<temp_dir, new_checklist, item_pos, made>> /\ SubFrame

\* lines 139-143: GET cards/{id}/files returns the files
FilesListOk ==
    /\ pc = "files"
    /\ Truthy(new_card)
    /\ phases' = Append(phases, "files")
    /\ req' = Request("source", "GET", <<"cards", card.id, "files">>, None)
    /\ sub' = TRUE
    /\ \E files \in FileLists :
          /\ listing' = files
          /\ pc' = IF files = <<>> THEN "checklists" ELSE "download"
    /\ cat' = "files" /\ pos' = 0 /\ sent' = <<>>
    /\ UNCHANGED <<temp_dir, new_checklist, item_pos, made, errors>> /\ SubFrame

\* line 143: the loop goes on with the next file, or ends
AfterFile == IF pos + 1 = Len(listing) THEN "checklists" ELSE "download"

\* lines 90-93: requests.get(file_url)
DownloadRequest == Request("source", "GET", <<"file", listing[pos + 1].url>>, None)

\* lines 146, 92-93 and 153-155: the download raises, nothing is written
DownloadFails ==
    /\ pc = "download"
    /\ req' = DownloadRequest
    /\ sent' = Append(sent, listing[pos + 1].name)
    /\ errors' = errors \cup {"files"}
    /\ pos' = pos + 1
    /\ pc' = AfterFile
    /\ UNCHANGED <<temp_dir, cat, listing, new_checklist, item_pos, made, sub, phases>>
    /\ SubFrame

\* lines 146 and 92-99: the bytes are written to temp_dir / file_name
DownloadOk ==
    /\ pc = "download"
    /\ req' = DownloadRequest
    /\ sent' = Append(sent, listing[pos + 1].name)
    /\ temp_dir' = temp_dir \cup {listing[pos + 1].name}
    /\ pc' = "upload"
    /\ UNCHANGED <<cat, listing, pos, new_checklist, item_pos, made, sub, phases, errors>>
    /\ SubFrame

\* lines 101-111: the multipart POST of the local copy
UploadRequest ==
    Request("target", "POST", <<"cards", new_card.id, "files">>,
            [file |-> listing[pos + 1].name])

\* The files of temp_dir once the handling of an upload failure is over
\* (lines 153-155: the handler logs and continues).
TempDirAfterFailedUpload == temp_dir

\* The handler of lines 153-155 outside the loop: a failed upload ends the
\* file migration of the card.
UploadFailsEndsLoop ==
    /\ pc = "upload"
    /\ req' = UploadRequest
    /\ temp_dir' = TempDirAfterFailedUpload
    /\ errors' = errors \cup {"files"}
    /\ pos' = pos + 1
    /\ pc' = "checklists"
    /\ UNCHANGED <<cat, listing, new_checklist, item_pos, made, sent, sub, phases>>
    /\ SubFrame

\* lines 149 and 153-155: the upload raises
UploadFails ==
    /\ pc = "upload"
    /\ req' = UploadRequest
    /\ temp_dir' = TempDirAfterFailedUpload
    /\ errors' = errors \cup {"files"}
    /\ pos' = pos + 1
    /\ pc' = AfterFile
    /\ UNCHANGED <<cat, listing, new_checklist, item_pos, made, sent, sub, phases>>
    /\ SubFrame

\* lines 149-152: the upload returns and os.remove deletes the local copy
UploadOk ==
    /\ pc = "upload"
    /\ req' = UploadRequest
    /\ temp_dir' = temp_dir \ {listing[pos + 1].name}
    /\ pos' = pos + 1
    /\ pc' = AfterFile
    /\ UNCHANGED <<cat, listing, new_checklist, item_pos, made, sent, sub, phases, errors>>
    /\ SubFrame

\* ------------------------------------------------------------ checklists
\* lines 322-326: new_card['id'] raises on a body without an id
ChecklistsRaises ==
    /\ pc = "checklists"
    /\ ~Truthy(new_card)
    /\ phases' = Append(phases, "checklists")
    /\ cat' = "checklists" /\ listing' = <<>> /\ pos' = 0 /\ sent' = <<>>
    /\ errors' = errors \cup {"checklists"}
    /\ pc' = "finish"
    /\ UNCHANGED <<temp_dir, new_checklist, item_pos, made, req, sub>> /\ SubFrame

\* lines 162-163 and 184-185: GET cards/{id} raises
ChecklistsGetFails ==
    /\ pc = "checklists"
    /\ Truthy(new_card)
    /\ phases' = Append(phases, "checklists")
    /\ req' = Request("source", "GET", <<"cards", card.id>>, None)
    /\ sub' = TRUE
    /\ cat' = "checklists" /\ listing' = <<>> /\ pos' = 0 /\ sent' = <<>>
    /\ errors' = errors \cup {"checklists"}
    /\ pc' = "finish"
    /\ UNCHANGED <<temp_dir, new_checklist, item_pos, made>> /\ SubFrame

\* lines 162-166: GET cards/{id} returns the card with its checklists
ChecklistsGetOk ==
    /\ pc = "checklists"
    /\ Truthy(new_card)
    /\ phases' = Append(phases, "checklists")
    /\ req' = Request("source", "GET", <<"cards", card.id>>, None)
    /\ sub' = TRUE
    /\ \E checklists \in ChecklistLists :
          /\ listing' = checklists
          /\ pc' = IF checklists = <<>> THEN "finish" ELSE "checklist"
    /\ cat' = "checklists" /\ pos' = 0 /\ sent' = <<>>
    /\ UNCHANGED <<temp_dir, new_checklist, item_pos, made, errors>> /\ SubFrame

\* line 166: the loop goes on with the next checklist, or ends
AfterChecklist == IF pos + 1 = Len(listing) THEN "finish" ELSE "checklist"

\* lines 118-124
ChecklistRequest ==
    Request("target", "POST", <<"cards", new_card.id, "checklists">>,
            [name |-> listing[pos + 1].name])

\* The id the target gives the checklist it creates.
TargetChecklistId == 20 + pos

\* lines 169 and 180-182: POST cards/{id}/checklists raises
ChecklistCreateFails ==
    /\ pc = "checklist"
    /\ req' = ChecklistRequest
    /\ made' = Append(made, ChecklistRequest.body)
    /\ new_checklist' = None /\ item_pos' = 0 /\ sent' = <<>>
    /\ errors' = errors \cup {"checklists"}
    /\ pos' = pos + 1
    /\ pc' = AfterChecklist
    /\ UNCHANGED <<temp_dir, cat, listing, sub, phases>> /\ SubFrame

\* lines 169-172: POST cards/{id}/checklists returns the parsed body
ChecklistCreateOk ==
    /\ pc = "checklist"
    /\ req' = ChecklistRequest
    /\ \E body \in {Body(TargetChecklistId), EmptyBody} : new_checklist' = body
    /\ made' = Append(made, ChecklistRequest.body)
    /\ item_pos' = 0 /\ sent' = <<>>
    /\ IF listing[pos + 1].items = <<>>
       THEN pos' = pos + 1 /\ pc' = AfterChecklist
       ELSE pos' = pos /\ pc' = "checklist_item"
    /\ UNCHANGED <<temp_dir, cat, listing, sub, phases, errors>> /\ SubFrame

\* The item created without its checked state (create_checklist_item's
\* default of line 126).
ItemRequestUnchecked ==
    LET item == listing[pos + 1].items[item_pos + 1]
    IN  Request("target", "POST",
                <<"cards", new_card.id, "checklists", new_checklist.id, "items">>,
                [text |-> item.text, checked |-> Val("false")])

\* lines 126-135 and 173-178; item.get('checked', False)
ItemRequest ==
    LET item == listing[pos + 1].items[item_pos + 1]
    IN  Request("target", "POST",
                <<"cards", new_card.id, "checklists", new_checklist.id, "items">>,
                [text |-> item.text,
                 checked |-> IF item.checked = Absent THEN Val("false") ELSE item.checked])

\* lines 173-182: new_checklist['id'] raises on a body without an id
ItemCreateRaises ==
    /\ pc = "checklist_item"
    /\ ~Truthy(new_checklist)
    /\ errors' = errors \cup {"checklists"}
    /\ pos' = pos + 1
    /\ pc' = AfterChecklist
    /\ UNCHANGED <<temp_dir, cat, listing, new_checklist, item_pos, made, sent, req, sub, phases>>
    /\ SubFrame

\* An item failure caught by the outer handler of lines 184-185 only: the
\* checklist migration of the card is over.
ItemCreateFailsEndsChecklists ==
    /\ pc = "checklist_item"
    /\ Truthy(new_checklist)
    /\ req' = ItemRequest
    /\ sent' = Append(sent, ItemRequest.body)
    /\ errors' = errors \cup {"checklists"}
    /\ pos' = pos + 1
    /\ pc' = "finish"
    /\ UNCHANGED <<temp_dir, cat, listing, new_checklist, item_pos, made, sub, phases>>
    /\ SubFrame

\* lines 173-182: POST .../items raises; the handler is outside the item loop
ItemCreateFails ==
    /\ pc = "checklist_item"
    /\ Truthy(new_checklist)
    /\ req' = ItemRequest
    /\ sent' = Append(sent, ItemRequest.body)
    /\ errors' = errors \cup {"checklists"}
    /\ pos' = pos + 1
    /\ pc' = AfterChecklist
    /\ UNCHANGED <<temp_dir, cat, listing, new_checklist, item_pos, made, sub, phases>>
    /\ SubFrame

\* lines 172-178: POST .../items returns
ItemCreateOk ==
    /\ pc = "checklist_item"
    /\ Truthy(new_checklist)
    /\ req' = ItemRequest
    /\ sent' = Append(sent, ItemRequest.body)
    /\ item_pos' = item_pos + 1
    /\ IF item_pos + 1 = Len(listing[pos + 1].items)
       THEN pos' = pos + 1 /\ pc' = AfterChecklist
       ELSE pos' = pos /\ pc' = "checklist_item"
    /\ UNCHANGED <<temp_dir, cat, listing, new_checklist, made, sub, phases, errors>>
    /\ SubFrame

\* ------------------------------------------------------ the end of a card
\* lines 328-330
FinishCard ==
    /\ pc = "finish"
    /\ success_count' = NextSuccessCount
    /\ progress' = Append(progress, ProgressValue)
    /\ i' = i + 1
    /\ pc' = "loop"
    /\ UNCHANGED <<total_cards, result, card, new_card_data, new_card, temp_dir, req,
                   posts, outcomes, sub, phases, errors>>
    /\ UNCHANGED locals /\ UNCHANGED mapper /\ UNCHANGED loader

\* lines 335-336.  (The handler of lines 338-340 is never entered: nothing
\* outside the inner try raises.)
Return ==
    /\ pc = "loop" /\ i = total_cards
    /\ result' = <<success_count, total_cards>>
    /\ pc' = "done"
    /\ UNCHANGED <<total_cards, success_count, progress, temp_dir, req, sub, phases,
                   errors>>
    /\ UNCHANGED sofar
    /\ UNCHANGED locals /\ UNCHANGED mapper /\ UNCHANGED loader

\* -------------------------------------------------------- specifications
Idle ==
    /\ i = 0 /\ card = None /\ success_count = 0
    /\ new_card_data = None /\ new_card = None
    /\ progress = <<>> /\ result = None /\ temp_dir = {}
    /\ cat = "none" /\ listing = <<>> /\ pos = 0
    /\ new_checklist = None /\ item_pos = 0 /\ sent = <<>> /\ made = <<>>
    /\ req = None /\ posts = 0 /\ outcomes = <<>> /\ sub = FALSE
    /\ phases = <<>> /\ errors = {}

\* The card loading of main is not part of the run.
NotLoading == source = None /\ cards_cache = <<>> /\ cards_to_migrate = {}

\* migrate_cards is called with a selection of total_cards cards (line 243).
Init ==
    /\ pc = "loop"
    /\ total_cards \in 0..MaxCards
    /\ Idle
    /\ source_properties = None /\ prepared_props = None
    /\ NotLoading

Next ==
    \/ NextCard \/ NextCardRaises \/ CreateCardFails \/ CreateCardOk
    \/ TagsSkipped \/ TagsListFails \/ TagsListOk \/ TagCreateFails \/ TagCreateOk
    \/ CommentsListFails \/ CommentsListOk
    \/ CommentCreateRaises \/ CommentCreateFails \/ CommentCreateOk
    \/ FilesRaises \/ FilesListFails \/ FilesListOk
    \/ DownloadFails \/ DownloadOk \/ UploadFails \/ UploadOk
    \/ ChecklistsRaises \/ ChecklistsGetFails \/ ChecklistsGetOk
    \/ ChecklistCreateFails \/ ChecklistCreateOk
    \/ ItemCreateRaises \/ ItemCreateFails \/ ItemCreateOk
    \/ FinishCard \/ Return

Spec == Init /\ [][Next]_vars

\* prepare_properties_for_migration applied to one property map.
PropsFrame ==
    /\ UNCHANGED <<total_cards, i, card, success_count, new_card_data, new_card, progress,
                result, temp_dir, cat, listing, pos, new_checklist, item_pos, made, sent, req,
                posts, outcomes, sub, phases, errors, source_properties>>
    /\ UNCHANGED loader

InitProps ==
    /\ pc = "prepare"
    /\ total_cards = 0
    /\ Idle
    /\ source_properties \in PropertyMaps \cup {None}
    /\ prepared_props = None
    /\ NotLoading

\* lines 222-223
PrepareReturnsNone ==
    /\ pc = "prepare"
    /\ prepare_properties_for_migration(source_properties) = None
    /\ prepared_props' = None
    /\ pc' = "prepared"
    /\ PropsFrame

\* lines 225-235
PrepareReturnsDict ==
    /\ pc = "prepare"
    /\ prepare_properties_for_migration(source_properties) \notin {None, TypeError}
    /\ prepared_props' = prepare_properties_for_migration(source_properties)
    /\ pc' = "prepared"
    /\ PropsFrame

\* line 230 raises
PrepareRaises ==
    /\ pc = "prepare"
    /\ prepare_properties_for_migration(source_properties) = TypeError
    /\ prepared_props' = TypeError
    /\ pc' = "raised"
    /\ PropsFrame

NextProps == PrepareReturnsNone \/ PrepareReturnsDict \/ PrepareRaises

SpecProps == InitProps /\ [][NextProps]_vars


\* ----------------------------------------------------------------- claims
Last(q) == q[Len(q)]
Count(q, x) == Cardinality({j \in 1..Len(q) : q[j] = x})
SubCategories == {"tags", "comments", "files", "checklists"}
AllPhases == <<"tags", "comments", "files", "checklists">>
Between == pc = "loop" /\ i > 0          \* a card has just been processed

\* C1: migrate_cards returns (s, N), N the number of selected cards and s the
\* number of cards whose POST cards succeeded, whatever failed in the
\* migration of their tags, comments, files or checklists.
C1_TallyCountsCreations ==
    pc = "done" => result = <<Count(outcomes, "ok"), total_cards>>

\* C1 witness: a run has returned in which every card was created and counted
\* although a sub-resource of the last card failed.
C1_Witness ==
    /\ pc = "done" /\ total_cards = MaxCards
    /\ result = <<total_cards, total_cards>>
    /\ errors \cap SubCategories # {}

\* C2: a card whose creation request fails gets no sub-resource request, is
\* not counted, its creation is not retried, and every later card of the
\* selection still gets its creation attempt.
C2_CreateFailureSkipsOnlyThatCard ==
    /\ posts <= 1
    /\ (Between /\ Last(outcomes) = "failed") => (~sub /\ phases = <<>>)
    /\ success_count <= Count(outcomes, "ok")
    /\ \A j \in 1..Len(outcomes) : \A k \in (j + 1)..Len(outcomes) :
          outcomes[j] = "failed" => outcomes[k] # "none"

\* C3: once a card is created its sub-resources are attempted in the order
\* tags, comments, files, checklists (tags when the snapshot has tags and the
\* response is non-empty), and whatever fails in one category the later
\* categories are still attempted.
C3_CategoriesInOrder ==
    /\ \E m \in 0..4 : phases \in {SubSeq(AllPhases, 1, m), SubSeq(AllPhases, 2, m)}
    /\ (pc = "finish" \/ (Between /\ Last(outcomes) = "ok")) =>
          phases = IF Truthy(new_card) /\ card.tags THEN AllPhases ELSE Tail(AllPhases)

\* C3 witness: a card has been processed whose tags, comments and files all
\* failed and whose checklists were attempted all the same.
C3_Witness ==
    /\ Between /\ Last(outcomes) = "ok"
    /\ {"tags", "comments", "files"} \subseteq errors
    /\ phases = AllPhases
    /\ req.path = <<"cards", card.id>>

\* C4: in the tag and the comment migration of a card a failure on one item
\* does not keep the remaining items from being attempted: when the category
\* is over, a creation request was issued for every listed item.
C4_EveryItemAttempted ==
    (cat \in {"tags", "comments"} /\ pc \notin {"tag_item", "comment_item"}
        /\ Truthy(new_card))
    => Len(sent) = Len(listing)

\* C5: the local copy of a downloaded file is deleted right after its upload
\* attempt, on success and on failure: outside the upload of a file the
\* temporary directory holds no file.
C5_NoLocalCopyOutsideUpload == pc # "upload" => temp_dir = {}

\* C6: after the k-th of N cards has been processed, created or not, the
\* last progress reported is k/N.
C6_ProgressAfterEveryCard ==
    Between => (progress # <<>> /\ Last(progress) = <<i, total_cards>>)

\* C7: every value given to the progress sink in one run lies in [0,1] and
\* the values never decrease.
C7_ProgressMonotonicInUnitInterval ==
    /\ \A j \in 1..Len(progress) :
          /\ progress[j][2] > 0
          /\ 0 <= progress[j][1] /\ progress[j][1] <= progress[j][2]
    /\ \A j \in 1..Len(progress) : \A k \in j..Len(progress) :
          progress[j][1] * progress[k][2] <= progress[k][1] * progress[j][2]

\* C7 witness: a run has returned that reported progress for every card, the
\* last one with a failed sub-resource.
C7_Witness ==
    /\ pc = "done" /\ total_cards = MaxCards
    /\ Len(progress) = total_cards
    /\ Last(progress) = <<total_cards, total_cards>>
    /\ errors \cap SubCategories # {}

\* The source keys whose field has a field of the same name on the target.
Mappable(k) ==
    k \in DOMAIN SourceFieldName /\ SourceFieldName[k] \in DOMAIN TargetFieldKey

\* C8: the properties of the creation payload are keyed by target field ids:
\* a source property whose field name exists on the target board is emitted
\* under the target id of that name, never under the source key.
C8_KeyedByTargetField ==
    (pc = "prepared" /\ prepared_props # None) =>
        \A k \in DOMAIN source_properties.map :
            Mappable(k) =>
                /\ TargetFieldKey[SourceFieldName[k]] \in DOMAIN prepared_props.map
                /\ k \notin DOMAIN prepared_props.map

\* C9: a source property whose field id is not a field of the source board,
\* or whose field name has no counterpart on the target board, is dropped.
C9_UnmappedDropped ==
    (pc = "prepared" /\ prepared_props # None) =>
        \A k \in DOMAIN source_properties.map :
            ~Mappable(k) => k \notin DOMAIN prepared_props.map

\* The value transformation as C10 states it.
AllRefs(v) ==
    /\ v.kind = "list" /\ v.elems # <<>>
    /\ \A j \in 1..Len(v.elems) : v.elems[j].kind = "ref"
IdsInOrder(v) == List([j \in 1..Len(v.elems) |-> Num(v.elems[j].n)])

\* C10: a non-empty array whose elements are all objects with an id becomes
\* the array of those ids in the same order; every other value is copied
\* unchanged.
C10_ValueTransformation ==
    (pc \in {"prepared", "raised"} /\ source_properties # None
        /\ DOMAIN source_properties.map # {})
    => /\ prepared_props \notin {None, TypeError}
       /\ \A k \in DOMAIN source_properties.map :
             /\ k \in DOMAIN prepared_props.map
             /\ prepared_props.map[k] =
                   IF AllRefs(source_properties.map[k])
                   THEN IdsInOrder(source_properties.map[k])
                   ELSE source_properties.map[k]


\* ------------------------------------------------- the creation payload
\* Lines 253-271 applied to one source card: every scalar field missing, null
\* or set, the two flags also false, the properties missing, null, empty or
\* a map.
PayloadCards ==
    {Card(1, FALSE, props, sc) :
        props \in {Absent, None, PyDict(<<>>)} \cup (RunProps \ {None}),
        sc \in [description : {Absent, None, Val("text")},
                type_id     : {Absent, None, Val("type")},
                size_text   : {Absent, None, Val("size")},
                due_date    : {Absent, None, Val("date")},
                asap          : {Absent, None, Val("true"), Val("false")},
                expires_later : {Absent, None, Val("true"), Val("false")}]}

PayloadFrame ==
    /\ UNCHANGED <<total_cards, i, card, success_count, new_card, progress,
                result, temp_dir, cat, listing, pos, new_checklist, item_pos, made, sent, req,
                posts, outcomes, sub, phases, errors, source_properties, prepared_props>>
    /\ UNCHANGED loader

InitPayload ==
    /\ pc = "payload"
    /\ total_cards = 1
    /\ i = 0 /\ card \in PayloadCards /\ success_count = 0
    /\ new_card_data = None /\ new_card = None
    /\ progress = <<>> /\ result = None /\ temp_dir = {}
    /\ cat = "none" /\ listing = <<>> /\ pos = 0
    /\ new_checklist = None /\ item_pos = 0 /\ sent = <<>> /\ made = <<>>
    /\ req = None /\ posts = 0 /\ outcomes = <<>> /\ sub = FALSE
    /\ phases = <<>> /\ errors = {}
    /\ source_properties = None /\ prepared_props = None
    /\ NotLoading

\* lines 253-271
BuildPayload ==
    /\ pc = "payload"
    /\ prepare_properties_for_migration(Get(card, "properties")) # TypeError
    /\ new_card_data' =
          NewCardData(card, prepare_properties_for_migration(Get(card, "properties")))
    /\ pc' = "built"
    /\ PayloadFrame

\* line 253 raises (lines 332-333 follow): no payload is built
BuildPayloadRaises ==
    /\ pc = "payload"
    /\ prepare_properties_for_migration(Get(card, "properties")) = TypeError
    /\ new_card_data' = None
    /\ pc' = "raised"
    /\ PayloadFrame

NextPayload == BuildPayload \/ BuildPayloadRaises

SpecPayload == InitPayload /\ [][NextPayload]_vars

Carried(c, k) == c[k] \notin {Absent, None}
OptionalScalars == {"description", "type_id", "size_text", "due_date"}
Flags == {"asap", "expires_later"}

\* C11 as stated: each of description, type_id, size_text, due_date, asap,
\* expires_later is in the POST body only if the source card carries a
\* non-null value for it, and properties only if the source map is non-empty.
C11_OmitsAbsentAndNull ==
    pc = "built" =>
        /\ \A k \in OptionalScalars \cup Flags :
              k \in DOMAIN new_card_data => Carried(card, k)
        /\ "properties" \in DOMAIN new_card_data =>
              (Carried(card, "properties") /\ DOMAIN card.properties.map # {})

\* C11 amended: description, type_id, size_text and due_date are in the POST
\* body exactly when the source card carries a non-null value, which is then
\* sent as it is; properties exactly when the source map is non-empty; asap
\* and expires_later are left out only when the source card carries null: a
\* card without the key sends false.
C11_OmitsNullAndDefaultsFlags ==
    pc = "built" =>
        /\ \A k \in OptionalScalars :
              /\ k \in DOMAIN new_card_data <=> Carried(card, k)
              /\ k \in DOMAIN new_card_data => new_card_data[k] = card[k]
        /\ \A k \in Flags :
              /\ k \in DOMAIN new_card_data <=> card[k] # None
              /\ k \in DOMAIN new_card_data =>
                    new_card_data[k] = IF card[k] = Absent THEN Val("false") ELSE card[k]
        /\ "properties" \in DOMAIN new_card_data <=>
              (Carried(card, "properties") /\ DOMAIN card.properties.map # {})
        /\ {"title", "board_id", "column_id", "lane_id"} \subseteq DOMAIN new_card_data

\* C11 witness: a payload was built for a card with a null description, no
\* size_text, no asap key and an empty property map.
C11_Witness ==
    /\ pc = "built"
    /\ card.description = None /\ card.size_text = Absent /\ card.asap = Absent
    /\ card.properties = PyDict(<<>>)
    /\ DOMAIN new_card_data \cap {"description", "size_text", "properties"} = {}
    /\ new_card_data.asap = Val("false")


\* ------------------------------------------------- the card loading of main
\* The cards of the selected source column are 1..source.size; a request for
\* `limit` cards from `offset` on is answered with the cards after the first
\* `offset`, at most `limit` of them.
Min(a, b) == IF a <= b THEN a ELSE b
Page(offset, limit) ==
    [j \in 1..(Min(source.size, offset + limit) - Min(source.size, offset)) |-> offset + j]

\* lines 440-444: the query parameters of the request
CardsParams ==
    [space_id  |-> Val("source_space_id"),
     board_id  |-> Val("selected_board"),
     column_id |-> Val("selected_column")]

LoadFrame ==
    /\ UNCHANGED <<total_cards, i, card, success_count, new_card_data, new_card, progress,
                   result, temp_dir, cat, listing, pos, new_checklist, item_pos, made,
                   posts, outcomes, sub, phases, errors, source>>
    /\ UNCHANGED mapper

InitLoad ==
    /\ pc = "load"
    /\ total_cards = 0
    /\ Idle
    /\ source_properties = None /\ prepared_props = None
    /\ source \in [size : 0..MaxSource, limit : 1..MaxLimit]
    /\ cards_cache = <<>> /\ cards_to_migrate = {}

\* lines 438-446: GET cards returns; the request names no limit and no
\* offset, so the source answers with its first page
LoadCardsOk ==
    /\ pc = "load"
    /\ req' = Request("source", "GET", <<"cards">>, CardsParams)
    /\ sent' = Append(sent, CardsParams)
    /\ cards_cache' = Page(0, source.limit)
    /\ pc' = "loaded"
    /\ UNCHANGED cards_to_migrate /\ LoadFrame

\* lines 438-445 and 464-465: GET cards raises
LoadCardsFails ==
    /\ pc = "load"
    /\ req' = Request("source", "GET", <<"cards">>, CardsParams)
    /\ sent' = Append(sent, CardsParams)
    /\ pc' = "load_failed"
    /\ UNCHANGED <<cards_cache, cards_to_migrate>> /\ LoadFrame

\* lines 449-452 and 511: the cards chosen in the multiselect
SelectCards ==
    /\ pc = "loaded"
    /\ \E selected_cards \in SUBSET {cards_cache[j] : j \in 1..Len(cards_cache)} :
          cards_to_migrate' = selected_cards
    /\ pc' = "selected"
    /\ UNCHANGED <<cards_cache, req, sent>> /\ LoadFrame

NextLoad == LoadCardsOk \/ LoadCardsFails \/ SelectCards

SpecLoad == InitLoad /\ [][NextLoad]_vars

\* The pages a paginated fetch of the column would see.
PageCount == (source.size + source.limit - 1) \div source.limit

\* C12: the cards are requested with limit and offset at increasing offsets
\* from 0 and the pages are concatenated in request order: the fetch returns
\* every card of the column and issues one request per page.
C12_PaginatedFetch ==
    pc \in {"loaded", "selected"} =>
        /\ \A j \in 1..Len(sent) : {"limit", "offset"} \subseteq DOMAIN sent[j]
        /\ Len(sent) = PageCount
        /\ cards_cache = [j \in 1..source.size |-> j]


\* C13: in the file migration of a card a failed download or upload does not
\* keep the later files from being attempted: a download is attempted for
\* every listed file, in listing order.
C13_EveryFileAttempted ==
    cat = "files" =>
        /\ pc \in {"download", "upload"} =>
              sent = [j \in 1..Len(sent) |-> listing[j].name]
        /\ pc = "download" => Len(sent) = pos
        /\ pc = "upload" => Len(sent) = pos + 1
        /\ pc \notin {"download", "upload"} =>
              sent = [j \in 1..Len(listing) |-> listing[j].name]

\* C13 witness: the file migration of the first card is over, the upload of
\* its first file failed (its copy is still there) and the last file of a
\* full listing was downloaded all the same.
C13_Witness ==
    /\ cat = "files" /\ pc = "checklists" /\ i = 0
    /\ Len(listing) = MaxItems
    /\ 1 \in temp_dir
    /\ Len(sent) = MaxItems


\* What C14 expects to be sent for a source item: its text, and whether it
\* is checked.
ItemAsIs(item) ==
    [text |-> item.text,
     checked |-> IF item.checked = Val("true") THEN Val("true") ELSE Val("false")]
ItemsAsIs(items, n) == [j \in 1..n |-> ItemAsIs(items[j])]

\* C14: one target checklist is created per source checklist, under the
\* same name and in listing order, then one item per source item, in item
\* order, with its text and checked state; when no request of the checklist
\* migration fails, the item requests of a checklist are its source items.
C14_ChecklistsCopied ==
    cat = "checklists" =>
        /\ made = [j \in 1..Len(made) |-> [name |-> listing[j].name]]
        /\ Len(made) = IF pc = "checklist_item" THEN pos + 1 ELSE pos
        /\ pc = "finish" => Len(made) = Len(listing)
        /\ pc = "checklist_item" =>
              sent = ItemsAsIs(listing[pos + 1].items, item_pos)
        /\ (pc \in {"checklist", "finish"} /\ pos >= 1 /\ "checklists" \notin errors) =>
              sent = ItemsAsIs(listing[pos].items, Len(listing[pos].items))

\* C14 witness: the checklist migration of a card ended without a failure
\* after a full listing of checklists with a full list of items each.
C14_Witness ==
    /\ cat = "checklists" /\ pc = "finish"
    /\ "checklists" \notin errors
    /\ Len(listing) = MaxItems /\ Len(made) = MaxItems
    /\ Len(listing[pos].items) = MaxItems /\ Len(sent) = MaxItems
    /\ sent[1].checked = Val("true") /\ sent[2].checked = Val("false")


\* The parts of a comment text ahead of the body.
Prefix(text) == SubSeq(text, 1, Len(text) - 1)
Parts(text) == {text[k] : k \in DOMAIN text}

\* C15: one target comment is created per source comment, in listing order,
\* and its text is the source body behind a prefix that holds the author's
\* display name and the creation timestamp of the source comment.
C15_AuthorAndTimestampPrefix ==
    cat = "comments" =>
        /\ Len(sent) <= Len(listing)
        /\ pc = "files" /\ "comments" \notin errors =>
              Len(sent) = Len(listing)
        /\ \A j \in 1..Len(sent) :
              /\ Last(sent[j].text) = listing[j].text
              /\ listing[j].author # Absent =>
                    listing[j].author.v \in Parts(Prefix(sent[j].text))
              /\ listing[j].created \in Parts(Prefix(sent[j].text))


\* C16: exactly one POST cards is issued per selected card, in selection
\* order: never more than one, whatever fails afterwards, and never none.
C16_ExactlyOnePostPerCard ==
    /\ posts <= 1
    /\ Len(outcomes) \in {i, i + 1}
    /\ (Between \/ pc = "finish") => posts = 1


\* C17: the source instance is only read: every request of the engine to the
\* source is a GET without a body, and every POST goes to the target.
C17_SourceOnlyRead ==
    req # None =>
        /\ req.dst \in {"source", "target"}
        /\ req.method \in {"GET", "POST"}
        /\ req.dst = "source" => (req.method = "GET" /\ req.body = None)
        /\ req.method = "POST" => req.dst = "target"

\* C17 witness: a file is being downloaded from the source for a card that
\* was created on the target and got a tag and a comment there.
C17_Witness ==
    /\ pc = "upload" /\ req = Request("source", "GET", <<"file", listing[pos + 1].url>>, None)
    /\ Truthy(new_card) /\ card.tags
    /\ errors = {}


\* C18: the mapper's output is a function of the source property map alone,
\* so a second application gives the first one's output, and applying it to
\* that output changes nothing; a null or empty map gives null, and the
\* payload of such a card has no properties key.
C18_StableOutputNullOnEmpty ==
    pc \in {"prepared", "raised"} =>
        /\ prepared_props = prepare_properties_for_migration(source_properties)
        /\ prepared_props \notin {None, TypeError} =>
              prepare_properties_for_migration(prepared_props) = prepared_props
        /\ (source_properties = None \/ source_properties = PyDict(<<>>)) =>
              /\ prepared_props = None
              /\ \A sc \in RunScalars :
                    "properties" \notin
                        DOMAIN NewCardData(Card(1, FALSE, source_properties, sc),
                                           prepared_props)

\* C18 witness: the mapper was applied to an empty property map.
C18_Witness ==
    /\ pc = "prepared"
    /\ source_properties = PyDict(<<>>)
    /\ prepared_props = None


\* A request on the tags of a card: the listing or a creation.
TagsRequested == req # None /\ Len(req.path) = 3 /\ req.path[3] = "tags"

\* C19: a tag request is issued for a created card only if its snapshot
\* carries a non-empty tags list and the creation response is non-empty;
\* the comment, file and checklist migrations are entered whether or not
\* the tag migration was.
C19_TagsOnlyWhenCarried ==
    /\ (TagsRequested \/ cat = "tags" \/ "tags" \in Parts(phases)) =>
          (Truthy(new_card) /\ card.tags)
    /\ (pc = "finish" \/ (Between /\ Last(outcomes) = "ok")) =>
          /\ Tail(AllPhases) = SubSeq(phases, Len(phases) - 2, Len(phases))
          /\ "tags" \in Parts(phases) <=> (Truthy(new_card) /\ card.tags)

\* C19 witness: a card whose snapshot carries tags got an empty creation
\* response; its tags were left alone and the three other migrations ran.
C19_Witness ==
    /\ pc = "finish"
    /\ card.tags /\ ~Truthy(new_card) /\ Last(outcomes) = "ok"
    /\ phases = <<"comments", "files", "checklists">>


\* A request that creates a checklist item.
ItemRequested == req # None /\ Len(req.path) = 5

\* C20: in the checklist migration, a failure of the creation of a checklist
\* or of one of its items ends that checklist (no further item of it is
\* attempted) and the next checklist of the listing is attempted all the
\* same; an item is only created under a checklist whose creation succeeded.
\* `sent` holds the item requests of the checklist at hand, `item_pos` the
\* number of them that succeeded.
C20_FailureEndsOneChecklist ==
    cat = "checklists" =>
        /\ ItemRequested =>
              (Truthy(new_checklist) /\ req.path[4] = new_checklist.id)
        /\ ~Truthy(new_checklist) => sent = <<>>
        /\ pc = "checklist_item" => Len(sent) = item_pos
        /\ (pc \in {"checklist", "finish"} /\ pos >= 1) =>
              /\ Len(made) = pos
              /\ Len(sent) \in {item_pos, item_pos + 1}
              /\ Len(sent) <= Len(listing[pos].items)
              /\ (Len(sent) > item_pos \/ Len(sent) < Len(listing[pos].items)) =>
                    "checklists" \in errors
        /\ pc = "finish" => Len(made) = Len(listing)

\* C20 witness: the migration of the first checklist, one of several items,
\* failed, and the second checklist was created all the same.
C20_Witness ==
    /\ cat = "checklists" /\ pc = "checklist_item"
    /\ pos = 1 /\ Len(made) = 2
    /\ "checklists" \in errors /\ Truthy(new_checklist)
    /\ Len(listing[1].items) = MaxItems
    /\ req.path = <<"cards", new_card.id, "checklists">>

====
